---------------------------- MODULE Spec2Model ----------------------------
(***************************************************************************)
(* A model of pyeapi/eapilib.py: the eAPI connection layer.                *)
(*                                                                         *)
(* An EapiConnection owns one httplib transport, an optional Basic-auth    *)
(* token (_auth) and a single error slot (error).  execute() validates the *)
(* encoding, resets the error slot, builds the JSON-RPC request with       *)
(* request() and hands it to send(), which writes the HTTP request on the  *)
(* transport, reads and decodes the reply, raises CommandError /           *)
(* ConnectionError and always closes the transport.                        *)
(*                                                                         *)
(* Strings are TLA+ strings (sequences of characters); Python values are   *)
(* records of one uniform shape; json.dumps, json.loads, base64 and the    *)
(* string formatting the code uses are computed character by character.    *)
(* Each caller thread executes the statements of execute()/send() one      *)
(* transport call at a time.                                               *)
(***************************************************************************)
EXTENDS Integers, Sequences, FiniteSets, TLC

(***************************************************************************)
(* Strings                                                                 *)
(***************************************************************************)

\* The character of s at position i (1-based), "" past the end.
CharAt(s, i) == IF i >= 1 /\ i <= Len(s) THEN SubSeq(s, i, i) ELSE ""

\* Printable ASCII 32..95 and 97..126, in code order.
AsciiLow == " !\"#$%&'()*+,-./0123456789:;<=>?@ABCDEFGHIJKLMNOPQRSTUVWXYZ[\\]^_"
AsciiHigh == "abcdefghijklmnopqrstuvwxyz{|}~"

\* ord(c) of a printable ASCII character, or of the newline.
Ord(c) ==
    IF c = "\n" THEN 10
    ELSE IF \E i \in 1..Len(AsciiLow) : SubSeq(AsciiLow, i, i) = c
         THEN 31 + (CHOOSE i \in 1..Len(AsciiLow) : SubSeq(AsciiLow, i, i) = c)
         ELSE 96 + (CHOOSE i \in 1..Len(AsciiHigh) : SubSeq(AsciiHigh, i, i) = c)

Digits == "0123456789"
IsDigit(c) == Len(c) = 1 /\ \E i \in 1..10 : SubSeq(Digits, i, i) = c
DigitVal(c) == (CHOOSE i \in 1..10 : SubSeq(Digits, i, i) = c) - 1

RECURSIVE NatStr(_)
\* str(n) / '%d' % n of a non-negative integer.
NatStr(n) ==
    IF n < 10 THEN SubSeq(Digits, n + 1, n + 1)
    ELSE NatStr(n \div 10) \o SubSeq(Digits, (n % 10) + 1, (n % 10) + 1)

\* str(n) / '%d' % n of an integer.
IntStr(n) == IF n < 0 THEN "-" \o NatStr(0 - n) ELSE NatStr(n)

\* needle in hay (substring test).
Contains(hay, needle) ==
    \E i \in 1..(Len(hay) - Len(needle) + 1) :
        SubSeq(hay, i, i + Len(needle) - 1) = needle

RECURSIVE RemoveChar(_, _)
\* s.replace(c, '') for a one-character c.
RemoveChar(s, c) ==
    IF Len(s) = 0 THEN ""
    ELSE (IF SubSeq(s, 1, 1) = c THEN "" ELSE SubSeq(s, 1, 1))
         \o RemoveChar(SubSeq(s, 2, Len(s)), c)

(***************************************************************************)
(* base64 (the standard library's encodestring, as authentication uses it) *)
(***************************************************************************)

B64Alphabet == "ABCDEFGHIJKLMNOPQRSTUVWXYZabcdefghijklmnopqrstuvwxyz0123456789+/"
B64Char(i) == SubSeq(B64Alphabet, i + 1, i + 1)

RECURSIVE B2A(_)
\* binascii.b2a_base64 without its trailing newline: 3 bytes -> 4 characters.
B2A(s) ==
    IF Len(s) = 0 THEN ""
    ELSE LET b1 == Ord(SubSeq(s, 1, 1))
             b2 == IF Len(s) >= 2 THEN Ord(SubSeq(s, 2, 2)) ELSE 0
             b3 == IF Len(s) >= 3 THEN Ord(SubSeq(s, 3, 3)) ELSE 0
             c1 == B64Char(b1 \div 4)
             c2 == B64Char((b1 % 4) * 16 + b2 \div 16)
             c3 == IF Len(s) >= 2 THEN B64Char((b2 % 16) * 4 + b3 \div 64) ELSE "="
             c4 == IF Len(s) >= 3 THEN B64Char(b3 % 64) ELSE "="
         IN  c1 \o c2 \o c3 \o c4 \o B2A(SubSeq(s, 4, Len(s)))

RECURSIVE encodestring(_)
\* base64.encodestring: one newline-terminated line per 57 input bytes
\* (the library's MAXBINSIZE).
encodestring(s) ==
    IF Len(s) = 0 THEN ""
    ELSE IF Len(s) <= 57 THEN B2A(s) \o "\n"
    ELSE B2A(SubSeq(s, 1, 57)) \o "\n" \o encodestring(SubSeq(s, 58, Len(s)))

(***************************************************************************)
(* Python values: None, bool, int, str, list, dict, in one record shape    *)
(***************************************************************************)

PyNone == [t |-> "none", n |-> 0, s |-> "", k |-> <<>>, v |-> <<>>]
PyBool(b) == [t |-> "bool", n |-> IF b THEN 1 ELSE 0, s |-> "", k |-> <<>>, v |-> <<>>]
PyInt(i) == [t |-> "int", n |-> i, s |-> "", k |-> <<>>, v |-> <<>>]
PyStr(str) == [t |-> "str", n |-> 0, s |-> str, k |-> <<>>, v |-> <<>>]
PyList(items) == [t |-> "list", n |-> 0, s |-> "", k |-> <<>>, v |-> items]
\* A dict: keys (strings) and their values, in insertion order.
PyDict(keys, vals) == [t |-> "dict", n |-> 0, s |-> "", k |-> keys, v |-> vals]

\* key in d, d[key] and d[key] = val for a dict.
HasKey(d, key) == \E i \in 1..Len(d.k) : d.k[i] = key
GetItem(d, key) == d.v[CHOOSE i \in 1..Len(d.k) : d.k[i] = key]
SetItem(d, key, val) ==
    IF HasKey(d, key)
    THEN PyDict(d.k, [i \in 1..Len(d.v) |-> IF d.k[i] = key THEN val ELSE d.v[i]])
    ELSE PyDict(Append(d.k, key), Append(d.v, val))

\* Python truthiness (the `if self._auth:` and `x or default` tests).
Truthy(x) ==
    CASE x.t = "none" -> FALSE
      [] x.t = "bool" -> x.n = 1
      [] x.t = "int"  -> x.n # 0
      [] x.t = "str"  -> Len(x.s) > 0
      [] x.t = "list" -> Len(x.v) > 0
      [] x.t = "dict" -> Len(x.k) > 0

\* str(x) / '{}'.format(x) / '%s' % x of None, a bool, an int or a string.
PyToStr(x) ==
    CASE x.t = "none" -> "None"
      [] x.t = "bool" -> (IF x.n = 1 THEN "True" ELSE "False")
      [] x.t = "int"  -> IntStr(x.n)
      [] x.t = "str"  -> x.s
      [] OTHER        -> "<" \o x.t \o ">"

(***************************************************************************)
(* json.dumps and json.loads                                               *)
(***************************************************************************)

RECURSIVE JsonEscape(_)
\* The body of a JSON string literal: quote, backslash and newline escaped.
JsonEscape(s) ==
    IF Len(s) = 0 THEN ""
    ELSE LET c == SubSeq(s, 1, 1)
         IN  (CASE c = "\"" -> "\\\""
                [] c = "\\" -> "\\\\"
                [] c = "\n" -> "\\n"
                [] OTHER    -> c)
             \o JsonEscape(SubSeq(s, 2, Len(s)))

RECURSIVE dumps(_)
RECURSIVE DumpItems(_, _)
RECURSIVE DumpMembers(_, _, _)
\* The elements of a list from index i on, separated by ", ".
DumpItems(items, i) ==
    IF i > Len(items) THEN ""
    ELSE dumps(items[i]) \o (IF i < Len(items) THEN ", " ELSE "")
         \o DumpItems(items, i + 1)
\* The members of a dict from index i on: "key": value, separated by ", ".
DumpMembers(keys, vals, i) ==
    IF i > Len(keys) THEN ""
    ELSE "\"" \o JsonEscape(keys[i]) \o "\": " \o dumps(vals[i])
         \o (IF i < Len(keys) THEN ", " ELSE "")
         \o DumpMembers(keys, vals, i + 1)
\* json.dumps(x) with the default separators.
dumps(x) ==
    CASE x.t = "none" -> "null"
      [] x.t = "bool" -> (IF x.n = 1 THEN "true" ELSE "false")
      [] x.t = "int"  -> IntStr(x.n)
      [] x.t = "str"  -> "\"" \o JsonEscape(x.s) \o "\""
      [] x.t = "list" -> "[" \o DumpItems(x.v, 1) \o "]"
      [] x.t = "dict" -> "{" \o DumpMembers(x.k, x.v, 1) \o "}"

\* A parse result: the value and the position after it, or a failure.
ParseOk(val, pos) == [ok |-> TRUE, val |-> val, pos |-> pos]
ParseFail == [ok |-> FALSE, val |-> PyNone, pos |-> 0]

IsWs(c) == c = " " \/ c = "\n"

RECURSIVE SkipWs(_, _)
\* The first position from i on that holds no whitespace.
SkipWs(s, i) == IF IsWs(CharAt(s, i)) THEN SkipWs(s, i + 1) ELSE i

RECURSIVE ParseString(_, _, _)
\* A string literal's body from position i (after the opening quote).
ParseString(s, i, acc) ==
    LET c == CharAt(s, i)
    IN  CASE c = ""   -> ParseFail
          [] c = "\"" -> ParseOk(PyStr(acc), i + 1)
          [] c = "\\" ->
                (LET e == CharAt(s, i + 1)
                 IN  CASE e = "\"" -> ParseString(s, i + 2, acc \o "\"")
                       [] e = "\\" -> ParseString(s, i + 2, acc \o "\\")
                       [] e = "n"  -> ParseString(s, i + 2, acc \o "\n")
                       [] OTHER    -> ParseFail)
          [] c = "\n" -> ParseFail
          [] OTHER    -> ParseString(s, i + 1, acc \o c)

RECURSIVE ParseDigits(_, _, _)
\* The digits from position i on, as a number.
ParseDigits(s, i, acc) ==
    IF IsDigit(CharAt(s, i))
    THEN ParseDigits(s, i + 1, acc * 10 + DigitVal(CharAt(s, i)))
    ELSE ParseOk(PyInt(acc), i)

\* An integer: -?(0|[1-9][0-9]*).
ParseNumber(s, i) ==
    LET neg   == CharAt(s, i) = "-"
        start == IF neg THEN i + 1 ELSE i
        r     == IF CharAt(s, start) = "0"
                 THEN ParseOk(PyInt(0), start + 1)
                 ELSE ParseDigits(s, start, 0)
    IN  IF ~IsDigit(CharAt(s, start)) THEN ParseFail
        ELSE IF neg THEN ParseOk(PyInt(0 - r.val.n), r.pos) ELSE r

\* The literal word at position i, if it is there.
ParseWord(s, i, word, val) ==
    IF i + Len(word) - 1 <= Len(s) /\ SubSeq(s, i, i + Len(word) - 1) = word
    THEN ParseOk(val, i + Len(word))
    ELSE ParseFail

RECURSIVE ParseValue(_, _)
RECURSIVE ParseElements(_, _, _)
RECURSIVE ParseMembers(_, _, _)
\* The elements of an array, from position i (after "[" or after ",").
ParseElements(s, i, acc) ==
    LET r == ParseValue(s, SkipWs(s, i))
        j == SkipWs(s, r.pos)
    IN  IF ~r.ok THEN ParseFail
        ELSE CASE CharAt(s, j) = "]" -> ParseOk(PyList(Append(acc, r.val)), j + 1)
               [] CharAt(s, j) = "," -> ParseElements(s, j + 1, Append(acc, r.val))
               [] OTHER              -> ParseFail
\* The members of an object, from position i (after "{" or after ",").
ParseMembers(s, i, acc) ==
    LET q  == SkipWs(s, i)
        kr == IF CharAt(s, q) = "\"" THEN ParseString(s, q + 1, "") ELSE ParseFail
        c  == SkipWs(s, kr.pos)
        r  == IF kr.ok /\ CharAt(s, c) = ":"
              THEN ParseValue(s, SkipWs(s, c + 1)) ELSE ParseFail
        j  == SkipWs(s, r.pos)
    IN  IF ~r.ok THEN ParseFail
        ELSE CASE CharAt(s, j) = "}" ->
                    ParseOk(SetItem(acc, kr.val.s, r.val), j + 1)
               [] CharAt(s, j) = "," ->
                    ParseMembers(s, j + 1, SetItem(acc, kr.val.s, r.val))
               [] OTHER -> ParseFail
\* One JSON value at position i.
ParseValue(s, i) ==
    LET c == CharAt(s, i)
    IN  CASE c = "{" ->
                (IF CharAt(s, SkipWs(s, i + 1)) = "}"
                 THEN ParseOk(PyDict(<<>>, <<>>), SkipWs(s, i + 1) + 1)
                 ELSE ParseMembers(s, i + 1, PyDict(<<>>, <<>>)))
          [] c = "[" ->
                (IF CharAt(s, SkipWs(s, i + 1)) = "]"
                 THEN ParseOk(PyList(<<>>), SkipWs(s, i + 1) + 1)
                 ELSE ParseElements(s, i + 1, <<>>))
          [] c = "\"" -> ParseString(s, i + 1, "")
          [] c = "-" \/ IsDigit(c) -> ParseNumber(s, i)
          [] c = "t" -> ParseWord(s, i, "true", PyBool(TRUE))
          [] c = "f" -> ParseWord(s, i, "false", PyBool(FALSE))
          [] c = "n" -> ParseWord(s, i, "null", PyNone)
          [] OTHER   -> ParseFail

\* json.loads(s): ok with the decoded value, or not ok (ValueError).  Objects,
\* arrays, strings, integers, true, false and null are decoded.
loads(s) ==
    LET r == ParseValue(s, SkipWs(s, 1))
    IN  IF r.ok /\ SkipWs(s, r.pos) > Len(s)
        THEN [ok |-> TRUE, val |-> r.val]
        ELSE [ok |-> FALSE, val |-> PyNone]

(***************************************************************************)
(* The exception classes                                                   *)
(***************************************************************************)

\* An exception object.  cls is its class; message, commands, error_code,
\* error_text and connection_type are its attributes (Python values, None
\* where the class has none); oid is the object's identity and call the
\* number of the call that created it.
Exception(cls, oid, call) ==
    [cls |-> cls, message |-> PyNone, commands |-> PyNone, error_code |-> PyNone,
     error_text |-> PyNone, connection_type |-> PyNone, oid |-> oid, call |-> call]

\* The value of an empty error slot (None).
NoError == Exception("None", 0, 0)

\* EapiError.__init__(self, message, commands=None).
EapiError_init(self, message, commands) ==
    [self EXCEPT !.message = message, !.commands = commands]

\* CommandError.__init__(self, code, message, commands=None): sets its own
\* attributes, then calls EapiError.__init__(message).
CommandError_init(self, code, message, commands) ==
    LET own == [self EXCEPT !.error_code = code,
                            !.error_text = message,
                            !.commands = commands,
                            !.message = PyStr("Error [" \o PyToStr(code) \o "]: "
                                              \o PyToStr(message))]
    IN  EapiError_init(own, message, PyNone)

\* ConnectionError.__init__(self, connection_type, message, commands=None):
\* sets its own attributes, then calls EapiError.__init__(message).
ConnectionError_init(self, connection_type, message, commands) ==
    LET own == [self EXCEPT !.message = message,
                            !.connection_type = connection_type,
                            !.commands = commands]
    IN  EapiError_init(own, message, PyNone)

\* The classes that `except (socket.error, ValueError)` in send catches.
CaughtBySend == {"socket.error", "ValueError"}

(***************************************************************************)
(* The transports and the four connection classes                          *)
(***************************************************************************)

DEFAULT_HTTP_PORT == 80
DEFAULT_HTTPS_PORT == 443
DEFAULT_HTTP_LOCAL_PORT == 8080
DEFAULT_HTTP_PATH == "/command-api"
DEFAULT_UNIX_SOCKET == "/var/run/command-api.sock"

\* x or default.
OrDefault(x, default) == IF Truthy(x) THEN x ELSE default

\* The transport object of a connection: its class and its host, port and path.
SocketConnection(path) ==
    [cls |-> "SocketConnection", host |-> PyStr("localhost"),
     port |-> PyInt(80), path |-> path]
HttpConnection(path, host, port) ==
    [cls |-> "HttpConnection", host |-> host, port |-> port, path |-> path]
HttpsConnection(path, host, port) ==
    [cls |-> "HttpsConnection", host |-> host, port |-> port, path |-> path]
\* transport = None, before a subclass sets it.
NoTransport ==
    [cls |-> "None", host |-> PyNone, port |-> PyNone, path |-> PyNone]

\* str(transport): the __str__ of the three transport classes.
Transport_str(tr) ==
    CASE tr.cls = "SocketConnection" -> "unix:" \o PyToStr(tr.path)
      [] tr.cls = "HttpConnection" ->
            "http://" \o PyToStr(tr.host) \o ":" \o PyToStr(tr.port)
            \o "/" \o PyToStr(tr.path)
      [] tr.cls = "HttpsConnection" ->
            "https://" \o PyToStr(tr.host) \o ":" \o PyToStr(tr.port)
            \o "/command-api"
      [] OTHER -> "None"

\* EapiConnection.__str__.
\* A variant that returns str(self.transport) alone.
EapiConnection_str_TransportOnly(tr) == Transport_str(tr)

EapiConnection_str(tr) == "EapiConnection(transport=" \o Transport_str(tr) \o ")"

\* EapiConnection.authentication(username, password): the new value of _auth.
\* A variant without the replace('\n', '') of line 178.
authentication_KeepNewline(username, password) ==
    PyStr(encodestring(PyToStr(username) \o ":" \o PyToStr(password)))

authentication(username, password) ==
    LET auth == encodestring(PyToStr(username) \o ":" \o PyToStr(password))
    IN  PyStr(RemoveChar(auth, "\n"))

\* A constructed connection: its transport and its _auth (error is None).
\* a holds the constructor's arguments, None where the caller omits one.
SocketEapiConnection(a) ==
    [transport |-> SocketConnection(OrDefault(a.path, PyStr(DEFAULT_UNIX_SOCKET))),
     auth |-> PyNone]
HttpLocalEapiConnection(a) ==
    [transport |-> HttpConnection(OrDefault(a.path, PyStr(DEFAULT_HTTP_PATH)),
                                  PyStr("localhost"),
                                  OrDefault(a.port, PyInt(DEFAULT_HTTP_LOCAL_PORT))),
     auth |-> PyNone]
\* A variant that configures authentication only when a username is given.
HttpEapiConnection_AuthIfGiven(a) ==
    [transport |-> HttpConnection(OrDefault(a.path, PyStr(DEFAULT_HTTP_PATH)),
                                  a.host,
                                  OrDefault(a.port, PyInt(DEFAULT_HTTP_PORT))),
     auth |-> IF Truthy(a.username) THEN authentication(a.username, a.password)
              ELSE PyNone]

HttpEapiConnection(a) ==
    [transport |-> HttpConnection(OrDefault(a.path, PyStr(DEFAULT_HTTP_PATH)),
                                  a.host,
                                  OrDefault(a.port, PyInt(DEFAULT_HTTP_PORT))),
     auth |-> authentication(a.username, a.password)]
HttpsEapiConnection(a) ==
    [transport |-> HttpsConnection(OrDefault(a.path, PyStr(DEFAULT_HTTP_PATH)),
                                   a.host,
                                   OrDefault(a.port, PyInt(DEFAULT_HTTPS_PORT))),
     auth |-> authentication(a.username, a.password)]

\* The constructor call named by k.
Construct(k) ==
    CASE k.cls = "SocketEapiConnection"    -> SocketEapiConnection(k)
      [] k.cls = "HttpLocalEapiConnection" -> HttpLocalEapiConnection(k)
      [] k.cls = "HttpEapiConnection"      -> HttpEapiConnection(k)
      [] k.cls = "HttpsEapiConnection"     -> HttpsEapiConnection(k)

\* EapiConnection.request(commands, encoding, reqid): the serialized request.
\* selfid is id(self).
\* A variant that ignores the encoding and asks for json.
request_FormatJson(selfid, commands, encoding, reqid) ==
    LET rid    == IF reqid = PyNone THEN PyInt(selfid) ELSE reqid
        params == PyDict(<<"version", "cmds", "format">>,
                         <<PyInt(1), commands, PyStr("json")>>)
    IN  dumps(PyDict(<<"jsonrpc", "method", "params", "id">>,
                     <<PyStr("2.0"), PyStr("runCmds"), params, PyStr(PyToStr(rid))>>))

\* A variant that puts the request id into the envelope as it is.
request_RawId(selfid, commands, encoding, reqid) ==
    LET rid    == IF reqid = PyNone THEN PyInt(selfid) ELSE reqid
        params == PyDict(<<"version", "cmds", "format">>,
                         <<PyInt(1), commands, encoding>>)
    IN  dumps(PyDict(<<"jsonrpc", "method", "params", "id">>,
                     <<PyStr("2.0"), PyStr("runCmds"), params, rid>>))

request(selfid, commands, encoding, reqid) ==
    LET rid    == IF reqid = PyNone THEN PyInt(selfid) ELSE reqid
        params == PyDict(<<"version", "cmds", "format">>,
                         <<PyInt(1), commands, encoding>>)
    IN  dumps(PyDict(<<"jsonrpc", "method", "params", "id">>,
                     <<PyStr("2.0"), PyStr("runCmds"), params, PyStr(PyToStr(rid))>>))

\* encoding in ['json', 'text'].
ValidEncoding(encoding) == encoding \in {PyStr("json"), PyStr("text")}

(***************************************************************************)
(* Inspection of the decoded response (send, lines 302-305)                *)
(***************************************************************************)

\* `key in x`: ok with the answer, or TypeError when x is not a container.
PyIn(key, x) ==
    CASE x.t = "dict" -> [ok |-> TRUE, val |-> HasKey(x, key)]
      [] x.t = "list" -> [ok |-> TRUE, val |-> \E i \in 1..Len(x.v) : x.v[i] = PyStr(key)]
      [] x.t = "str"  -> [ok |-> TRUE, val |-> Contains(x.s, key)]
      [] OTHER        -> [ok |-> FALSE, val |-> FALSE]

\* x[key] for a string key: the value, or the class of the exception raised.
PyIndex(x, key) ==
    IF x.t = "dict"
    THEN IF HasKey(x, key) THEN [raises |-> "", val |-> GetItem(x, key)]
         ELSE [raises |-> "KeyError", val |-> PyNone]
    ELSE [raises |-> "TypeError", val |-> PyNone]

\* What lines 302-307 of send do with the decoded response: return it, raise
\* CommandError(code, message), or fail with TypeError / KeyError.
InspectDecoded(decoded) ==
    LET has  == PyIn("error", decoded)
        err  == PyIndex(decoded, "error")
        msg  == PyIndex(err.val, "message")
        code == PyIndex(err.val, "code")
        none == [raises |-> "", code |-> PyNone, message |-> PyNone]
    IN  CASE ~has.ok           -> [none EXCEPT !.raises = "TypeError"]
          [] ~has.val          -> none
          [] err.raises # ""   -> [none EXCEPT !.raises = err.raises]
          [] msg.raises # ""   -> [none EXCEPT !.raises = msg.raises]
          [] code.raises # ""  -> [none EXCEPT !.raises = code.raises]
          [] OTHER -> [raises |-> "CommandError", code |-> code.val,
                       message |-> msg.val]

(***************************************************************************)
(* Bounds and inputs                                                       *)
(***************************************************************************)

\* The number of calls the callers make on the connections in one run.
MaxCalls == 2

\* The connection objects and the caller threads.
Conns == {1, 2}
Threads == {1, 2}

\* id(self) of connection c.
InstanceId(c) == 4300 + c

\* The constructor calls drawn, of each class one with every optional argument
\* omitted (None); of the two HTTP classes also one with arguments given.
Omitted == [cls |-> "", host |-> PyNone, port |-> PyNone, path |-> PyNone,
            username |-> PyNone, password |-> PyNone]
Constructions ==
    { [Omitted EXCEPT !.cls = "SocketEapiConnection"],
      [Omitted EXCEPT !.cls = "HttpLocalEapiConnection", !.port = PyInt(8081)],
      [Omitted EXCEPT !.cls = "HttpEapiConnection", !.host = PyStr("sw1"),
                      !.path = PyStr("/api"),
                      !.username = PyStr("admin"), !.password = PyStr("x")],
      [Omitted EXCEPT !.cls = "HttpsEapiConnection", !.host = PyStr("sw2")],
      [Omitted EXCEPT !.cls = "HttpLocalEapiConnection"],
      [Omitted EXCEPT !.cls = "HttpEapiConnection", !.host = PyStr("sw3")] }

\* The arguments the callers pass to execute and to request: a command list,
\* an encoding and a request id (None when the caller gives none).
Args(commands, encoding, reqid) ==
    [commands |-> commands, encoding |-> encoding, reqid |-> reqid]
OneCommand == PyList(<<PyStr("show version")>>)
TwoCommands == PyList(<<PyStr("show \"a\\b\""), PyStr("show ip")>>)
CallArgs ==
    { Args(OneCommand, PyStr("json"), PyNone),
      Args(TwoCommands, PyStr("text"), PyNone),
      Args(PyList(<<>>), PyStr("json"), PyStr("")),
      Args(OneCommand, PyStr("text"), PyInt(7)),
      Args(TwoCommands, PyStr("xml"), PyNone),
      Args(OneCommand, PyNone, PyStr("r1")) }

\* The credentials passed to authentication.
Credentials == { <<PyStr("admin"), PyStr("x")>>, <<PyStr(""), PyStr("")>> }

\* What the server answers: a JSON value, serialized by the server, or a text
\* that is no JSON.  Success envelopes with 0 and 2 results, a failure
\* envelope, an envelope with neither member, one with both, a failure
\* without message, and values that are no object.
ErrorMember(code, message) ==
    PyDict(<<"code", "message", "data">>,
           <<PyInt(code), PyStr(message),
             PyList(<<PyDict(<<>>, <<>>),
                      PyDict(<<"errors">>, <<PyList(<<PyStr("bad")>>)>>)>>)>>)
ServerValues ==
    { PyDict(<<"jsonrpc", "result", "id">>,
             <<PyStr("2.0"), PyList(<<>>), PyStr("1")>>),
      PyDict(<<"jsonrpc", "result", "id">>,
             <<PyStr("2.0"),
               PyList(<<PyDict(<<"v">>, <<PyInt(1)>>),
                        PyDict(<<"warnings">>, <<PyList(<<PyStr("w\"1\"")>>)>>)>>),
               PyStr("1")>>),
      PyDict(<<"jsonrpc", "error", "id">>,
             <<PyStr("2.0"), ErrorMember(1002, "CLI command failed"), PyStr("1")>>),
      PyDict(<<"jsonrpc", "id">>, <<PyStr("2.0"), PyStr("1")>>),
      PyDict(<<"jsonrpc", "result", "error", "id">>,
             <<PyStr("2.0"), PyList(<<PyDict(<<>>, <<>>)>>),
               ErrorMember(1000, "partial"), PyStr("1")>>),
      PyDict(<<"jsonrpc", "error", "id">>,
             <<PyStr("2.0"), PyDict(<<"code">>, <<PyInt(1005)>>), PyStr("1")>>),
      PyInt(5),
      PyList(<<PyStr("error")>>) }
Replies ==
    { [json |-> TRUE, val |-> v, text |-> dumps(v)] : v \in ServerValues }
    \cup { [json |-> FALSE, val |-> PyNone, text |-> x] :
             x \in {"", "<html>401</html>", "{\"jsonrpc\": \"2.0\", \"resu"} }

(***************************************************************************)
(* State                                                                   *)
(***************************************************************************)

VARIABLES
    kwargs,     \* kwargs[c]: the arguments connection c was constructed with
    transport,  \* transport[c]: the transport object connection c owns
    error,      \* error[c]: the error slot (NoError is None)
    _auth,      \* _auth[c]: the authorization token (a Python value)
    hstate,     \* hstate[c]: the request state the HTTP transport keeps
    sock,       \* sock[c]: "open" while the transport's stream is open
    wire,       \* wire[c]: the transport calls of the current invocation
    creds,      \* creds[c]: the arguments of the last authentication call
    frame,      \* frame[t]: position and locals of caller thread t
    ncalls,     \* the number of calls started
    lastReset   \* lastReset[c]: the last execute call on c that ran the
                \* reset of line 348 (0: none yet)

vars == <<kwargs, transport, error, _auth, hstate, sock, wire, creds, frame, ncalls,
          lastReset>>

NoCreds == [set |-> FALSE, username |-> PyNone, password |-> PyNone]
SetCreds(u, p) == [set |-> TRUE, username |-> u, password |-> p]

NoReply == [json |-> FALSE, val |-> PyNone, text |-> ""]

\* What a caller can observe of connection c: its error slot, its token and
\* its transport (the calls recorded, the stream, the request state).
Observable(c) ==
    [error |-> error[c], auth |-> _auth[c], wire |-> wire[c], sock |-> sock[c],
     hstate |-> hstate[c]]
NothingObserved ==
    [error |-> NoError, auth |-> PyNone, wire |-> <<>>, sock |-> "None",
     hstate |-> "Idle"]

\* A thread that has made no call yet.
Frame0 ==
    [pc |-> "idle", entry |-> "none", self |-> 0, call |-> 0,
     commands |-> PyNone, encoding |-> PyNone, reqid |-> PyNone,
     data |-> "", response |-> "", decoded |-> PyNone, exc |-> NoError,
     served |-> NoReply, prevFailed |-> FALSE, before |-> NothingObserved,
     outcome |-> "none", retval |-> PyNone, raised |-> NoError]

\* The state after the constructor calls: the connections in live are
\* constructed, the others do not exist.  InitFrom(live, ks) draws the
\* constructor calls from the assignments ks of one to each live connection.
InitFrom(live, ks) ==
    /\ \E k \in ks :
        /\ kwargs = [c \in Conns |-> IF c \in live THEN k[c] ELSE Omitted]
        /\ transport = [c \in Conns |-> IF c \in live THEN Construct(k[c]).transport
                                        ELSE NoTransport]
        /\ _auth = [c \in Conns |-> IF c \in live THEN Construct(k[c]).auth
                                    ELSE PyNone]
        /\ creds = [c \in Conns |->
                      IF c \in live /\ k[c].cls \in {"HttpEapiConnection",
                                                      "HttpsEapiConnection"}
                      THEN SetCreds(k[c].username, k[c].password)
                      ELSE NoCreds]
    /\ error = [c \in Conns |-> NoError]
    /\ hstate = [c \in Conns |-> "Idle"]
    /\ sock = [c \in Conns |-> "None"]
    /\ wire = [c \in Conns |-> <<>>]
    /\ frame = [t \in Threads |-> Frame0]
    /\ ncalls = 0
    /\ lastReset = [c \in Conns |-> 0]

InitWith(live) == InitFrom(live, [live -> Constructions])

Init == InitWith({1})

Exists(c) == transport[c].cls # "None"

(***************************************************************************)
(* Helpers of the actions                                                  *)
(***************************************************************************)

Self(t) == frame[t].self

\* A new exception object of class cls created by thread t's call; k tells
\* the call's first object (0) from its second (1).
NewException(t, cls, k) == Exception(cls, 2 * frame[t].call + k, frame[t].call)

\* The transport records one call made on it.
Record(c, op, a, b) == wire' = [wire EXCEPT ![c] = Append(@, <<op, a, b>>)]

\* Thread t's frame when exception e is raised inside the try block of send:
\* control goes to the except clause if it catches e, else to the finally
\* clause.
Raised(t, e) ==
    [frame EXCEPT ![t].exc = e,
                  ![t].pc = IF e.cls \in CaughtBySend THEN "send_except"
                            ELSE "send_finally"]

\* Thread t's frame when its call ends by returning val / by raising e.
Returns(t, val) ==
    [frame EXCEPT ![t].pc = "idle", ![t].outcome = "returned", ![t].retval = val,
                  ![t].exc = NoError]
Raises(t, e) ==
    [frame EXCEPT ![t].pc = "idle", ![t].outcome = "raised", ![t].raised = e,
                  ![t].exc = NoError]

\* Thread t's frame when it starts call number n of method entry on c.
Enters(t, entry, c, n) ==
    [Frame0 EXCEPT !.entry = entry, !.self = c, !.call = n,
                   !.prevFailed = (frame[t].outcome = "raised")]

(***************************************************************************)
(* authentication and request, called by the user                          *)
(***************************************************************************)

\* A variant of the call that also empties the error slot.
call_authentication_ClearsError(t, c, username, password) ==
    /\ frame[t].pc = "idle"
    /\ Exists(c)
    /\ ncalls < MaxCalls
    /\ ncalls' = ncalls + 1
    /\ _auth' = [_auth EXCEPT ![c] = authentication(username, password)]
    /\ creds' = [creds EXCEPT ![c] = SetCreds(username, password)]
    /\ error' = [error EXCEPT ![c] = NoError]
    /\ frame' = [frame EXCEPT ![t] =
                   [Enters(t, "authentication", c, ncalls + 1) EXCEPT
                       !.outcome = "returned"]]
    /\ UNCHANGED <<kwargs, transport, hstate, sock, wire, lastReset>>

\* conn.authentication(username, password)                     (lines 164-178)
call_authentication(t, c, username, password) ==
    /\ frame[t].pc = "idle"
    /\ Exists(c)
    /\ ncalls < MaxCalls
    /\ ncalls' = ncalls + 1
    /\ _auth' = [_auth EXCEPT ![c] = authentication(username, password)]
    /\ creds' = [creds EXCEPT ![c] = SetCreds(username, password)]
    /\ frame' = [frame EXCEPT ![t] =
                   [Enters(t, "authentication", c, ncalls + 1) EXCEPT
                       !.outcome = "returned"]]
    /\ UNCHANGED <<kwargs, transport, error, hstate, sock, wire, lastReset>>

\* conn.request(commands, encoding, reqid), called directly    (lines 180-220)
\* The frame keeps what was observable of the connection when the call began.
call_request(t, c, commands, encoding, reqid) ==
    /\ frame[t].pc = "idle"
    /\ Exists(c)
    /\ ncalls < MaxCalls
    /\ ncalls' = ncalls + 1
    /\ frame' = [frame EXCEPT ![t] =
                   [Enters(t, "request", c, ncalls + 1) EXCEPT
                       !.commands = commands, !.encoding = encoding,
                       !.reqid = reqid, !.before = Observable(c),
                       !.outcome = "returned",
                       !.retval = PyStr(request(InstanceId(c), commands,
                                                encoding, reqid))]]
    /\ UNCHANGED <<kwargs, transport, error, _auth, hstate, sock, wire, creds, lastReset>>

(***************************************************************************)
(* execute                                                 (lines 317-361) *)
(***************************************************************************)

\* The call conn.execute(commands, encoding, reqid=...) and its check of the
\* encoding (lines 344-345): TypeError, or on to the try block.
enter_execute(t, c, commands, encoding, reqid, valid) ==
    /\ frame[t].pc = "idle"
    /\ Exists(c)
    /\ ncalls < MaxCalls
    /\ ncalls' = ncalls + 1
    /\ LET f == [Enters(t, "execute", c, ncalls + 1) EXCEPT
                    !.commands = commands, !.encoding = encoding, !.reqid = reqid]
       IN  frame' = [frame EXCEPT ![t] =
                IF valid
                THEN [f EXCEPT !.pc = "execute_reset"]
                ELSE [f EXCEPT !.outcome = "raised",
                               !.raised = Exception("TypeError", 2 * f.call, f.call)]]
    /\ wire' = [wire EXCEPT ![c] = <<>>]
    /\ UNCHANGED <<kwargs, transport, error, _auth, hstate, sock, creds, lastReset>>

\* A variant without the check of lines 344-345.
execute_enter_Unchecked(t, c, commands, encoding, reqid) ==
    enter_execute(t, c, commands, encoding, reqid, TRUE)

\* A variant that waits until no other call is in progress on the connection.
execute_enter_Locked(t, c, commands, encoding, reqid) ==
    /\ \A u \in Threads \ {t} : frame[u].pc = "idle" \/ frame[u].self # c
    /\ enter_execute(t, c, commands, encoding, reqid, ValidEncoding(encoding))

execute_enter(t, c, commands, encoding, reqid) ==
    enter_execute(t, c, commands, encoding, reqid, ValidEncoding(encoding))

\* self.error = None                                              (line 348)
reset_error(t, value) ==
    /\ frame[t].pc = "execute_reset"
    /\ error' = [error EXCEPT ![Self(t)] = value]
    /\ frame' = [frame EXCEPT ![t].pc = "execute_request"]
    /\ lastReset' = [lastReset EXCEPT ![Self(t)] = frame[t].call]
    /\ UNCHANGED <<kwargs, transport, _auth, hstate, sock, wire, creds, ncalls>>

\* A variant without the assignment of line 348.
execute_reset_Skipped(t) == reset_error(t, error[Self(t)])

\* A variant for an error slot that belongs to the class, not to the object.
execute_reset_EveryConnection(t) ==
    /\ frame[t].pc = "execute_reset"
    /\ error' = [c \in Conns |-> NoError]
    /\ frame' = [frame EXCEPT ![t].pc = "execute_request"]
    /\ lastReset' = [lastReset EXCEPT ![Self(t)] = frame[t].call]
    /\ UNCHANGED <<kwargs, transport, _auth, hstate, sock, wire, creds, ncalls>>

execute_reset(t) == reset_error(t, NoError)

\* request = self.request(commands, encoding=encoding, **kwargs)  (line 349)
\* and the call self.send(request) (line 350).
execute_request(t) ==
    /\ frame[t].pc = "execute_request"
    /\ frame' = [frame EXCEPT
                   ![t].data = request(InstanceId(Self(t)), frame[t].commands,
                                       frame[t].encoding, frame[t].reqid),
                   ![t].pc = "send_putrequest"]
    /\ UNCHANGED <<kwargs, transport, error, _auth, hstate, sock, wire, creds, ncalls, lastReset>>

\* except ConnectionError as exc                              (lines 353-356)
execute_except_ConnectionError(t) ==
    /\ frame[t].pc = "execute_except"
    /\ frame[t].exc.cls = "ConnectionError"
    /\ LET exc == [frame[t].exc EXCEPT !.commands = frame[t].commands]
       IN  /\ error' = [error EXCEPT ![Self(t)] = exc]
           /\ frame' = Raises(t, exc)
    /\ UNCHANGED <<kwargs, transport, _auth, hstate, sock, wire, creds, ncalls, lastReset>>

\* except CommandError as exc                                 (lines 358-361)
execute_except_CommandError(t) ==
    /\ frame[t].pc = "execute_except"
    /\ frame[t].exc.cls = "CommandError"
    /\ LET exc == [frame[t].exc EXCEPT !.commands = frame[t].commands]
       IN  /\ error' = [error EXCEPT ![Self(t)] = exc]
           /\ frame' = Raises(t, exc)
    /\ UNCHANGED <<kwargs, transport, _auth, hstate, sock, wire, creds, ncalls, lastReset>>

(***************************************************************************)
(* send                                                    (lines 222-314) *)
(***************************************************************************)

\* The serialized requests a caller hands to send directly.
SendData ==
    { request(InstanceId(1), OneCommand, PyStr("json"), PyNone), "not json" }

\* conn.send(data), called directly.
send_enter(t, c, data) ==
    /\ frame[t].pc = "idle"
    /\ Exists(c)
    /\ ncalls < MaxCalls
    /\ ncalls' = ncalls + 1
    /\ frame' = [frame EXCEPT ![t] =
                   [Enters(t, "send", c, ncalls + 1) EXCEPT
                       !.data = data, !.pc = "send_putrequest"]]
    /\ wire' = [wire EXCEPT ![c] = <<>>]
    /\ UNCHANGED <<kwargs, transport, error, _auth, hstate, sock, creds, lastReset>>

\* A variant that posts to the path the transport was constructed with.
send_putrequest_TransportPath(t) ==
    /\ frame[t].pc = "send_putrequest"
    /\ IF hstate[Self(t)] = "Idle"
       THEN /\ hstate' = [hstate EXCEPT ![Self(t)] = "Request-started"]
            /\ Record(Self(t), "putrequest", "POST", PyToStr(transport[Self(t)].path))
            /\ frame' = [frame EXCEPT ![t].pc = "send_content_type"]
       ELSE /\ frame' = Raised(t, NewException(t, "CannotSendRequest", 0))
            /\ UNCHANGED <<hstate, wire>>
    /\ UNCHANGED <<kwargs, transport, error, _auth, sock, creds, ncalls, lastReset>>

\* self.transport.putrequest('POST', '/command-api')               (line 286)
\* The transport starts a request only when it is idle.
send_putrequest(t) ==
    /\ frame[t].pc = "send_putrequest"
    /\ IF hstate[Self(t)] = "Idle"
       THEN /\ hstate' = [hstate EXCEPT ![Self(t)] = "Request-started"]
            /\ Record(Self(t), "putrequest", "POST", "/command-api")
            /\ frame' = [frame EXCEPT ![t].pc = "send_content_type"]
       ELSE /\ frame' = Raised(t, NewException(t, "CannotSendRequest", 0))
            /\ UNCHANGED <<hstate, wire>>
    /\ UNCHANGED <<kwargs, transport, error, _auth, sock, creds, ncalls, lastReset>>

\* transport.putheader(name, value): accepted only in a started request.
putheader(t, name, value, next) ==
    /\ IF hstate[Self(t)] = "Request-started"
       THEN /\ Record(Self(t), "putheader", name, value)
            /\ frame' = [frame EXCEPT ![t].pc = next]
       ELSE /\ frame' = Raised(t, NewException(t, "CannotSendHeader", 0))
            /\ UNCHANGED wire
    /\ UNCHANGED <<kwargs, transport, error, _auth, hstate, sock, creds, ncalls, lastReset>>

\* self.transport.putheader('Content-type', 'application/json-rpc') (line 288)
send_content_type(t) ==
    /\ frame[t].pc = "send_content_type"
    /\ putheader(t, "Content-type", "application/json-rpc", "send_content_length")

\* self.transport.putheader('Content-length', '%d' % len(data))    (line 289)
send_content_length(t) ==
    /\ frame[t].pc = "send_content_length"
    /\ putheader(t, "Content-length", IntStr(Len(frame[t].data)), "send_authorization")

\* if self._auth: self.transport.putheader('Authorization', ...) (lines 291-293)
send_authorization(t) ==
    /\ frame[t].pc = "send_authorization"
    /\ IF Truthy(_auth[Self(t)])
       THEN putheader(t, "Authorization", "Basic " \o PyToStr(_auth[Self(t)]),
                      "send_endheaders")
       ELSE /\ frame' = [frame EXCEPT ![t].pc = "send_endheaders"]
            /\ UNCHANGED <<kwargs, transport, error, _auth, hstate, sock, wire, creds, ncalls, lastReset>>

\* self.transport.endheaders()                                     (line 295)
\* The transport opens its stream (a connect that may fail) and writes the
\* buffered request line and headers (a write that may fail).  Outside a
\* started request (another caller has reset the transport) it raises
\* CannotSendHeader.
send_endheaders(t) ==
    /\ frame[t].pc = "send_endheaders"
    /\ IF hstate[Self(t)] = "Request-started"
       THEN /\ hstate' = [hstate EXCEPT ![Self(t)] = "Request-sent"]
            /\ \/ /\ sock' = [sock EXCEPT ![Self(t)] = "open"]
                  /\ wire' = [wire EXCEPT ![Self(t)] =
                                @ \o (IF sock[Self(t)] = "None"
                                      THEN << <<"connect", "ok", "">> >> ELSE <<>>)
                                  \o << <<"endheaders", "", "">> >>]
                  /\ frame' = [frame EXCEPT ![t].pc = "send_body"]
               \/ /\ sock[Self(t)] = "None"
                  /\ Record(Self(t), "connect", "failed", "")
                  /\ frame' = Raised(t, NewException(t, "socket.error", 0))
                  /\ UNCHANGED sock
               \/ /\ sock' = [sock EXCEPT ![Self(t)] = "open"]
                  /\ wire' = [wire EXCEPT ![Self(t)] =
                                @ \o (IF sock[Self(t)] = "None"
                                      THEN << <<"connect", "ok", "">> >> ELSE <<>>)]
                  /\ frame' = Raised(t, NewException(t, "socket.error", 0))
       ELSE /\ frame' = Raised(t, NewException(t, "CannotSendHeader", 0))
            /\ UNCHANGED <<hstate, sock, wire>>
    /\ UNCHANGED <<kwargs, transport, error, _auth, creds, ncalls, lastReset>>

\* self.transport.send(data)                                       (line 296)
\* On a transport whose stream is closed (another caller has closed it), send
\* opens a stream first (auto_open).
send_body(t) ==
    /\ frame[t].pc = "send_body"
    /\ IF sock[Self(t)] = "open"
       THEN /\ \/ /\ Record(Self(t), "send", frame[t].data, "")
                  /\ frame' = [frame EXCEPT ![t].pc = "send_getresponse"]
               \/ /\ frame' = Raised(t, NewException(t, "socket.error", 0))
                  /\ UNCHANGED wire
            /\ UNCHANGED sock
       ELSE \/ /\ sock' = [sock EXCEPT ![Self(t)] = "open"]
               /\ wire' = [wire EXCEPT ![Self(t)] =
                             @ \o << <<"connect", "ok", "">>,
                                     <<"send", frame[t].data, "">> >>]
               /\ frame' = [frame EXCEPT ![t].pc = "send_getresponse"]
            \/ /\ Record(Self(t), "connect", "failed", "")
               /\ frame' = Raised(t, NewException(t, "socket.error", 0))
               /\ UNCHANGED sock
    /\ UNCHANGED <<kwargs, transport, error, _auth, hstate, creds, ncalls, lastReset>>

\* self.transport.getresponse()                       (line 298, first call)
\* The transport reads the status line and the headers of the reply: it may
\* fail with a socket error or with BadStatusLine (an HTTPException).  When
\* no request is sent (another caller has reset the transport) it raises
\* ResponseNotReady.
send_getresponse(t) ==
    /\ frame[t].pc = "send_getresponse"
    /\ IF hstate[Self(t)] = "Request-sent"
       THEN \/ /\ hstate' = [hstate EXCEPT ![Self(t)] = "Idle"]
               /\ Record(Self(t), "getresponse", "", "")
               /\ frame' = [frame EXCEPT ![t].pc = "send_read"]
            \/ /\ frame' = Raised(t, NewException(t, "socket.error", 0))
               /\ UNCHANGED <<hstate, wire>>
            \/ /\ frame' = Raised(t, NewException(t, "BadStatusLine", 0))
               /\ UNCHANGED <<hstate, wire>>
       ELSE /\ frame' = Raised(t, NewException(t, "ResponseNotReady", 0))
            /\ UNCHANGED <<hstate, wire>>
    /\ UNCHANGED <<kwargs, transport, error, _auth, sock, creds, ncalls, lastReset>>

\* response = <the response>.read()                  (line 298, second call)
\* replies: the bodies the server may answer with.
read(t, replies) ==
    /\ frame[t].pc = "send_read"
    /\ \/ \E r \in replies :
            /\ Record(Self(t), "read", "", "")
            /\ frame' = [frame EXCEPT ![t].response = r.text, ![t].served = r,
                                      ![t].pc = "send_loads"]
       \/ /\ frame' = Raised(t, NewException(t, "socket.error", 0))
          /\ UNCHANGED wire
       \/ /\ frame' = Raised(t, NewException(t, "IncompleteRead", 0))
          /\ UNCHANGED wire
    /\ UNCHANGED <<kwargs, transport, error, _auth, hstate, sock, creds, ncalls, lastReset>>

send_read(t) == read(t, Replies)

\* The same with fewer bodies: a success envelope with two results, a failure
\* envelope and a body that is no JSON.
FewReplies ==
    { r \in Replies :
        \/ r.json /\ r.val.t = "dict" /\ HasKey(r.val, "result")
             /\ ~HasKey(r.val, "error") /\ Len(GetItem(r.val, "result").v) = 2
        \/ r.json /\ r.val.t = "dict" /\ HasKey(r.val, "error")
             /\ ~HasKey(r.val, "result") /\ HasKey(GetItem(r.val, "error"), "message")
        \/ r.text = "<html>401</html>" }
send_read_Few(t) == read(t, FewReplies)

\* decoded = json.loads(response)                                  (line 299)
send_loads(t) ==
    /\ frame[t].pc = "send_loads"
    /\ LET r == loads(frame[t].response)
       IN  frame' = IF r.ok
                    THEN [frame EXCEPT ![t].decoded = r.val, ![t].pc = "send_inspect"]
                    ELSE Raised(t, NewException(t, "ValueError", 0))
    /\ UNCHANGED <<kwargs, transport, error, _auth, hstate, sock, wire, creds, ncalls, lastReset>>

\* if 'error' in decoded: raise CommandError(_code, _message)
\* return decoded                                             (lines 302-307)
inspect(t, returned) ==
    /\ frame[t].pc = "send_inspect"
    /\ LET r == InspectDecoded(frame[t].decoded)
       IN  frame' =
             CASE r.raises = "" ->
                    [frame EXCEPT ![t].retval = returned,
                                  ![t].pc = "send_finally"]
               [] r.raises = "CommandError" ->
                    Raised(t, CommandError_init(NewException(t, "CommandError", 0),
                                                r.code, r.message, PyNone))
               [] OTHER -> Raised(t, NewException(t, r.raises, 0))
    /\ UNCHANGED <<kwargs, transport, error, _auth, hstate, sock, wire, creds, ncalls, lastReset>>

\* A variant that returns decoded['result'] in place of decoded.
send_inspect_ResultOnly(t) ==
    inspect(t, IF frame[t].decoded.t = "dict" /\ HasKey(frame[t].decoded, "result")
               THEN GetItem(frame[t].decoded, "result") ELSE frame[t].decoded)

send_inspect(t) == inspect(t, frame[t].decoded)

\* except (socket.error, ValueError) as exc:
\*     self.error = exc
\*     raise ConnectionError(str(self), 'unable to connect to eAPI')
\*                                                            (lines 309-311)
\* storesCause: the handler assigns the caught exception to self.error.
catch(t, storesCause) ==
    /\ frame[t].pc = "send_except"
    /\ LET raised == ConnectionError_init(
                          NewException(t, "ConnectionError", 1),
                          PyStr(EapiConnection_str(transport[Self(t)])),
                          PyStr("unable to connect to eAPI"), PyNone)
       IN  /\ error' = [error EXCEPT ![Self(t)] =
                          IF storesCause THEN frame[t].exc ELSE raised]
           /\ frame' = [frame EXCEPT ![t].exc = raised, ![t].pc = "send_finally"]
    /\ UNCHANGED <<kwargs, transport, _auth, hstate, sock, wire, creds, ncalls, lastReset>>

\* A variant that stores the ConnectionError it raises.
send_except_StoresRaised(t) == catch(t, FALSE)

\* A variant that makes a second attempt after the first failure of a call.
send_except_RetryOnce(t) ==
    IF /\ frame[t].pc = "send_except"
       /\ Cardinality({i \in 1..Len(wire[Self(t)]) :
                          wire[Self(t)][i][1] = "putrequest"}) = 1
    THEN /\ frame' = [frame EXCEPT ![t].exc = NoError, ![t].pc = "send_putrequest"]
         /\ hstate' = [hstate EXCEPT ![Self(t)] = "Idle"]
         /\ sock' = [sock EXCEPT ![Self(t)] = "None"]
         /\ UNCHANGED <<kwargs, transport, error, _auth, wire, creds, ncalls, lastReset>>
    ELSE catch(t, TRUE)

send_except(t) == catch(t, TRUE)

\* finally: self.transport.close()                           (lines 313-314)
\* and the way out of send: back to the caller of send, or to execute, which
\* returns the response (lines 350-351), handles a ConnectionError or a
\* CommandError, or lets another exception pass.
leave_send(t, close) ==
    /\ frame[t].pc = "send_finally"
    /\ IF close
       THEN /\ sock' = [sock EXCEPT ![Self(t)] = "None"]
            /\ hstate' = [hstate EXCEPT ![Self(t)] = "Idle"]
            /\ Record(Self(t), "close", "", "")
       ELSE UNCHANGED <<sock, hstate, wire>>
    /\ frame' =
         IF frame[t].exc = NoError THEN Returns(t, frame[t].retval)
         ELSE IF frame[t].entry = "execute"
                 /\ frame[t].exc.cls \in {"ConnectionError", "CommandError"}
              THEN [frame EXCEPT ![t].pc = "execute_except"]
              ELSE Raises(t, frame[t].exc)
    /\ UNCHANGED <<kwargs, transport, error, _auth, creds, ncalls, lastReset>>

\* A variant that closes the transport after the return only.
send_finally_OnSuccessOnly(t) == leave_send(t, frame[t].exc = NoError)

send_finally(t) == leave_send(t, TRUE)

(***************************************************************************)
(* The specification: one caller thread, one connection                    *)
(***************************************************************************)

\* A step of thread t.
Step(t) ==
    \/ \E c \in Conns, cr \in Credentials : call_authentication(t, c, cr[1], cr[2])
    \/ \E c \in Conns, a \in CallArgs :
          call_request(t, c, a.commands, a.encoding, a.reqid)
    \/ \E c \in Conns, a \in CallArgs :
          execute_enter(t, c, a.commands, a.encoding, a.reqid)
    \/ execute_reset(t)
    \/ execute_request(t)
    \/ execute_except_ConnectionError(t)
    \/ execute_except_CommandError(t)
    \/ \E c \in Conns, data \in SendData : send_enter(t, c, data)
    \/ send_putrequest(t)
    \/ send_content_type(t)
    \/ send_content_length(t)
    \/ send_authorization(t)
    \/ send_endheaders(t)
    \/ send_body(t)
    \/ send_getresponse(t)
    \/ send_read(t)
    \/ send_loads(t)
    \/ send_inspect(t)
    \/ send_except(t)
    \/ send_finally(t)

Next == Step(1)

Spec == Init /\ [][Next]_vars

(***************************************************************************)
(* Two connections, each used by a caller thread of its own                *)
(***************************************************************************)

\* Connection 1 is a SocketEapiConnection, connection 2 an HttpEapiConnection
\* to sw1 with credentials.
InitTwoConnections ==
    InitFrom({1, 2},
             { [c \in {1, 2} |->
                  IF c = 1
                  THEN [Omitted EXCEPT !.cls = "SocketEapiConnection"]
                  ELSE [Omitted EXCEPT !.cls = "HttpEapiConnection",
                                       !.host = PyStr("sw1"), !.path = PyStr("/api"),
                                       !.username = PyStr("admin"),
                                       !.password = PyStr("x")]] })

\* A step of thread t, whose calls are all on connection c.
StepOn(t, c) ==
    \/ call_authentication(t, c, PyStr(""), PyStr(""))
    \/ \E a \in { Args(OneCommand, PyStr("json"), PyNone),
                   Args(TwoCommands, PyStr("xml"), PyNone) } :
          execute_enter(t, c, a.commands, a.encoding, a.reqid)
    \/ execute_reset(t)
    \/ execute_request(t)
    \/ execute_except_ConnectionError(t)
    \/ execute_except_CommandError(t)
    \/ send_enter(t, c, "not json")
    \/ send_putrequest(t)
    \/ send_content_type(t)
    \/ send_content_length(t)
    \/ send_authorization(t)
    \/ send_endheaders(t)
    \/ send_body(t)
    \/ send_getresponse(t)
    \/ send_read_Few(t)
    \/ send_loads(t)
    \/ send_inspect(t)
    \/ send_except(t)
    \/ send_finally(t)

NextTwoConnections == StepOn(1, 1) \/ StepOn(2, 2)

SpecTwoConnections == InitTwoConnections /\ [][NextTwoConnections]_vars

(***************************************************************************)
(* One connection used by two caller threads without synchronization       *)
(***************************************************************************)

InitSharedConnection ==
    InitFrom({1}, { [c \in {1} |-> [Omitted EXCEPT !.cls = "SocketEapiConnection"]] })

\* A step of thread t, which makes one call of execute on connection 1.
StepShared(t) ==
    \/ /\ frame[t].outcome = "none"
       /\ execute_enter(t, 1, OneCommand, PyStr("json"), PyNone)
    \/ execute_reset(t)
    \/ execute_request(t)
    \/ execute_except_ConnectionError(t)
    \/ execute_except_CommandError(t)
    \/ send_putrequest(t)
    \/ send_content_type(t)
    \/ send_content_length(t)
    \/ send_authorization(t)
    \/ send_endheaders(t)
    \/ send_body(t)
    \/ send_getresponse(t)
    \/ send_read_Few(t)
    \/ send_loads(t)
    \/ send_inspect(t)
    \/ send_except(t)
    \/ send_finally(t)

NextSharedConnection == StepShared(1) \/ StepShared(2)

SpecSharedConnection == InitSharedConnection /\ [][NextSharedConnection]_vars

(***************************************************************************)
(* Vocabulary of the properties                                            *)
(***************************************************************************)

\* Thread t's last call has ended (and it has started no other since).
Ended(t) == frame[t].pc = "idle" /\ frame[t].outcome # "none"
ExecuteEnded(t) == Ended(t) /\ frame[t].entry = "execute"
ExecuteReturned(t) == ExecuteEnded(t) /\ frame[t].outcome = "returned"
ExecuteRaised(t, cls) ==
    ExecuteEnded(t) /\ frame[t].outcome = "raised" /\ frame[t].raised.cls = cls

\* How many calls of op the transport has recorded in log.
Count(log, op) == Cardinality({i \in 1..Len(log) : log[i][1] = op})
\* The transport has recorded a call of op with arguments a and b.
Recorded(log, op, a, b) == \E i \in 1..Len(log) : log[i] = <<op, a, b>>

(***************************************************************************)
(* C1: every execute call that ends by returning, with CommandError or     *)
(* with ConnectionError has opened the transport's stream once and closed  *)
(* it once, the close being its last transport call; an execute call that  *)
(* ends in any way has closed as often as it opened; and whenever no call  *)
(* is in progress, no stream is open.                                      *)
(***************************************************************************)
C1_ClosedOnEveryExit ==
    /\ \A t \in Threads :
        ExecuteEnded(t) =>
          LET log == wire[Self(t)]
          IN  /\ Count(log, "connect") = Count(log, "close")
              /\ ( \/ ExecuteReturned(t)
                   \/ ExecuteRaised(t, "CommandError")
                   \/ ExecuteRaised(t, "ConnectionError") )
                 => /\ Count(log, "connect") = 1
                    /\ Count(log, "close") = 1
                    /\ log[Len(log)][1] = "close"
    /\ (\A t \in Threads : frame[t].pc = "idle")
          => \A c \in Conns : sock[c] = "None" /\ hstate[c] = "Idle"

\* An execute call ended with ConnectionError after its request had been
\* written on an open stream, and the stream is closed.
C1_Witness ==
    /\ ExecuteRaised(1, "ConnectionError")
    /\ Recorded(wire[Self(1)], "connect", "ok", "")
    /\ Recorded(wire[Self(1)], "send", frame[1].data, "")
    /\ sock[Self(1)] = "None"

(***************************************************************************)
(* C2: the error slot and the execute calls.                               *)
(***************************************************************************)

\* The classes of the exceptions execute stores in the error slot.
StoredByExecute == {"CommandError", "ConnectionError"}

\* C2, as stated: whenever the last call was an execute call, an error that
\* an execute call left in the error slot is the error of that last call.
C2_SlotBelongsToLastExecute ==
    \A t \in Threads :
        ExecuteEnded(t) /\ error[Self(t)].cls \in StoredByExecute
            => error[Self(t)].call = frame[t].call

\* C2, amended: the error slot is reset at the start of every execute call
\* that passes the check of its encoding, and only of those: it is empty from
\* the reset until the call fails and after the call returns, and an error an
\* execute call left in it is the error of the last execute call that passed
\* the check.
C2_SlotBelongsToLastCheckedExecute ==
    /\ \A c \in Conns :
        error[c].cls \in StoredByExecute => error[c].call = lastReset[c]
    /\ \A t \in Threads :
        /\ ( /\ frame[t].entry = "execute"
             /\ frame[t].pc \in {"execute_request", "send_putrequest",
                    "send_content_type", "send_content_length",
                    "send_authorization", "send_endheaders", "send_body",
                    "send_getresponse", "send_read", "send_loads",
                    "send_inspect", "send_except"} )
           => error[Self(t)] = NoError
        /\ ExecuteReturned(t) => error[Self(t)] = NoError
        /\ ( /\ ExecuteEnded(t)
             /\ ValidEncoding(frame[t].encoding)
             /\ error[Self(t)] # NoError )
           => error[Self(t)] = frame[t].raised

\* An execute call rejected for its encoding has ended, and the slot still
\* holds the error of the execute call before it.
C2_Witness ==
    /\ ExecuteRaised(1, "TypeError")
    /\ error[Self(1)].cls = "CommandError"
    /\ error[Self(1)].call = lastReset[Self(1)]
    /\ error[Self(1)].call < frame[1].call

(***************************************************************************)
(* C3: the failure envelope.                                               *)
(***************************************************************************)

\* The reply thread t's call was served is an envelope with an error member
\* that has a code and a message.
ServedFailure(t) ==
    /\ frame[t].served.json
    /\ frame[t].served.val.t = "dict"
    /\ HasKey(frame[t].served.val, "error")
    /\ GetItem(frame[t].served.val, "error").t = "dict"
    /\ HasKey(GetItem(frame[t].served.val, "error"), "code")
    /\ HasKey(GetItem(frame[t].served.val, "error"), "message")
ServedCode(t) == GetItem(GetItem(frame[t].served.val, "error"), "code")
ServedMessage(t) == GetItem(GetItem(frame[t].served.val, "error"), "message")

\* C3, as stated: when the decoded response carries an error member with
\* code c and message m, execute raises CommandError with error_code c, a
\* message that contains both c and m and the commands of the call, and the
\* error slot then holds that exception.
C3_CommandErrorCarriesCodeAndText ==
    \A t \in Threads :
        ExecuteEnded(t) /\ ServedFailure(t) =>
            /\ ExecuteRaised(t, "CommandError")
            /\ frame[t].raised.error_code = ServedCode(t)
            /\ Contains(PyToStr(frame[t].raised.message), PyToStr(ServedCode(t)))
            /\ Contains(PyToStr(frame[t].raised.message), PyToStr(ServedMessage(t)))
            /\ frame[t].raised.commands = frame[t].commands
            /\ error[Self(t)] = frame[t].raised

(***************************************************************************)
(* C4: the connect failure.                                                *)
(***************************************************************************)

\* The identity strings of the transports the constructor calls build.
TransportIdentity(tr) ==
    CASE tr.cls = "SocketConnection" -> "unix:/var/run/command-api.sock"
      [] tr.cls = "HttpConnection" /\ tr.port = PyInt(8081) ->
            "http://localhost:8081//command-api"
      [] tr.cls = "HttpConnection" /\ tr.port = PyInt(8080) ->
            "http://localhost:8080//command-api"
      [] tr.cls = "HttpConnection" /\ tr.host = PyStr("sw1") -> "http://sw1:80//api"
      [] tr.cls = "HttpConnection" /\ tr.host = PyStr("sw3") ->
            "http://sw3:80//command-api"
      [] tr.cls = "HttpsConnection" -> "https://sw2:443/command-api"

\* Thread t's call found the transport unable to connect.
ConnectFailed(t) == Recorded(wire[Self(t)], "connect", "failed", "")

\* What C4 says of an execute call whose transport failed to connect, the
\* connection type of the exception being expected.
ConnectFailureRaises(t, expected) ==
    /\ ExecuteRaised(t, "ConnectionError")
    /\ frame[t].raised.connection_type = PyStr(expected)
    /\ frame[t].raised.message = PyStr("unable to connect to eAPI")
    /\ frame[t].raised.commands = frame[t].commands
    /\ error[Self(t)] = frame[t].raised
    /\ frame[t].retval = PyNone

\* C4, as stated: if the transport fails to connect, execute raises
\* ConnectionError whose connection type is the identity string of the
\* transport and whose message is "unable to connect to eAPI"; the error slot
\* holds this exception with the commands of the call, nothing is returned.
C4_ConnectionTypeIsTransportIdentity ==
    \A t \in Threads :
        ExecuteEnded(t) /\ ConnectFailed(t) =>
            ConnectFailureRaises(t, TransportIdentity(transport[Self(t)]))

\* C4, amended: the connection type is the identity string of the
\* connection, "EapiConnection(transport=<identity of the transport>)".
C4_ConnectionTypeIsConnectionIdentity ==
    \A t \in Threads :
        ExecuteEnded(t) /\ ConnectFailed(t) =>
            ConnectFailureRaises(t,
                "EapiConnection(transport="
                    \o TransportIdentity(transport[Self(t)]) \o ")")

\* An execute call with two commands on the HTTP connection to sw1 ended
\* after the transport failed to connect.
C4_Witness ==
    /\ ExecuteEnded(1)
    /\ ConnectFailed(1)
    /\ transport[Self(1)].host = PyStr("sw1")
    /\ frame[1].commands = TwoCommands
    /\ error[Self(1)].connection_type =
          PyStr("EapiConnection(transport=http://sw1:80//api)")

(***************************************************************************)
(* C5: the success envelope.                                               *)
(***************************************************************************)

\* The reply thread t's call was served is an envelope with a result list
\* and no error member.
ServedSuccess(t) ==
    /\ frame[t].served.json
    /\ frame[t].served.val.t = "dict"
    /\ HasKey(frame[t].served.val, "result")
    /\ GetItem(frame[t].served.val, "result").t = "list"
    /\ ~HasKey(frame[t].served.val, "error")

\* C5: an execute call served a success envelope returns the whole envelope
\* as the server built it, its result entries unmodified and in order, and
\* leaves the error slot empty, whether or not the call before it failed.
C5_SuccessEnvelopeReturned ==
    \A t \in Threads :
        ExecuteEnded(t) /\ ServedSuccess(t) =>
            /\ ExecuteReturned(t)
            /\ frame[t].retval = frame[t].served.val
            /\ GetItem(frame[t].retval, "result").v
                 = GetItem(frame[t].served.val, "result").v
            /\ error[Self(t)] = NoError

\* An execute call returned an envelope with two result entries after the
\* call before it had failed.
C5_Witness ==
    /\ ExecuteReturned(1)
    /\ ServedSuccess(1)
    /\ Len(GetItem(frame[1].retval, "result").v) = 2
    /\ frame[1].prevFailed
    /\ error[Self(1)] = NoError

(***************************************************************************)
(* C6: the check of the encoding.                                          *)
(***************************************************************************)

\* C6: an execute call with an encoding other than json and text ends with
\* TypeError without any call on the transport (no connect, write, read or
\* close; the stream is not open) and the TypeError is not in the error slot.
C6_InvalidEncodingRejectedFirst ==
    \A t \in Threads :
        ExecuteEnded(t) /\ ~ValidEncoding(frame[t].encoding) =>
            /\ ExecuteRaised(t, "TypeError")
            /\ wire[Self(t)] = <<>>
            /\ sock[Self(t)] = "None"
            /\ hstate[Self(t)] = "Idle"
            /\ error[Self(t)] # frame[t].raised
            /\ error[Self(t)].cls # "TypeError"
            /\ error[Self(t)].call # frame[t].call

\* An execute call with encoding xml was rejected; the transport saw no call.
C6_Witness ==
    /\ ExecuteRaised(1, "TypeError")
    /\ frame[1].encoding = PyStr("xml")
    /\ wire[Self(1)] = <<>>
    /\ error[Self(1)] = NoError

(***************************************************************************)
(* C7: the Authorization header.                                           *)
(***************************************************************************)

\* base64 of "username:password" for the credentials the model draws.
ExpectedToken(username, password) ==
    CASE username = PyStr("admin") /\ password = PyStr("x") -> "YWRtaW46eA=="
      [] username = PyStr("") /\ password = PyStr("") -> "Og=="
      [] username = PyNone /\ password = PyNone -> "Tm9uZTpOb25l"

\* The positions of send after its headers are put and before it ends.
HeadersPut ==
    {"send_endheaders", "send_body", "send_getresponse", "send_read",
     "send_loads", "send_inspect"}

\* The Authorization headers in log.
AuthorizationHeaders(log) ==
    {i \in 1..Len(log) : log[i][1] = "putheader" /\ log[i][2] = "Authorization"}

\* C7: a request carries an Authorization header if and only if
\* authentication was called on the connection (by the constructor or by the
\* user); it then carries one, "Basic " and the base64 of username:password
\* of the most recent authentication call.
C7_AuthorizationIffAuthenticated ==
    \A t \in Threads :
        frame[t].pc \in HeadersPut =>
            LET c   == Self(t)
                log == wire[c]
            IN  IF creds[c].set
                THEN /\ Cardinality(AuthorizationHeaders(log)) = 1
                     /\ \A i \in AuthorizationHeaders(log) :
                          log[i][3] = "Basic " \o ExpectedToken(creds[c].username,
                                                               creds[c].password)
                ELSE AuthorizationHeaders(log) = {}

\* The HTTP connection to sw1, constructed for admin/x and then given empty
\* credentials by a call of authentication, sends the token of the latter.
C7_Witness ==
    /\ frame[1].pc = "send_body"
    /\ transport[Self(1)].host = PyStr("sw1")
    /\ creds[Self(1)] = SetCreds(PyStr(""), PyStr(""))
    /\ Recorded(wire[Self(1)], "putheader", "Authorization", "Basic Og==")

(***************************************************************************)
(* C8: what send leaves in the error slot.                                 *)
(***************************************************************************)

\* Control has just left send in thread t: send was called directly and has
\* ended, or execute called it and is about to handle its exception.
SendExited(t) ==
    \/ frame[t].entry = "send" /\ Ended(t)
    \/ frame[t].entry = "execute" /\ frame[t].pc = "execute_except"
\* The exception send exited with.
SendRaised(t) == IF Ended(t) THEN frame[t].raised ELSE frame[t].exc

\* Send caught a socket error or a ValueError of the parser in thread t's
\* call: the body served was no JSON, or a transport call failed.
SendCaught(t) == SendExited(t) /\ SendRaised(t).cls = "ConnectionError"

\* What send raises on a low-level failure.
SendRaisesConnectionError(t) ==
    /\ SendRaised(t).connection_type =
          PyStr("EapiConnection(transport="
                    \o TransportIdentity(transport[Self(t)]) \o ")")
    /\ SendRaised(t).message = PyStr("unable to connect to eAPI")

\* Thread t's send was served a body that is no JSON / had a transport call
\* fail after the request was written.
ServedGarbage(t) ==
    /\ Recorded(wire[Self(t)], "read", "", "")
    /\ ~frame[t].served.json
ReadFailed(t) ==
    /\ Recorded(wire[Self(t)], "send", frame[t].data, "")
    /\ ~Recorded(wire[Self(t)], "read", "", "")

\* C8, as stated: when the body cannot be parsed or the transport raises a
\* low-level failure, send raises a ConnectionError with the identity string
\* of the connection and the message "unable to connect to eAPI", and that
\* ConnectionError is what the error slot holds when send exits.
C8_SlotHoldsConnectionErrorAtSendExit ==
    \A t \in Threads :
        /\ SendExited(t) /\ (ServedGarbage(t) \/ ConnectFailed(t)) => SendCaught(t)
        /\ SendCaught(t) =>
              /\ SendRaisesConnectionError(t)
              /\ error[Self(t)] = SendRaised(t)

\* C8, amended: send raises that ConnectionError, and what the error slot
\* holds when send exits is the exception send caught, the socket error or
\* the ValueError of the parser, not the ConnectionError.
C8_SlotHoldsCauseAtSendExit ==
    \A t \in Threads :
        /\ SendExited(t) /\ (ServedGarbage(t) \/ ConnectFailed(t)) => SendCaught(t)
        /\ SendCaught(t) =>
              /\ SendRaisesConnectionError(t)
              /\ error[Self(t)].cls \in CaughtBySend
              /\ error[Self(t)].call = frame[t].call
              /\ error[Self(t)] # SendRaised(t)
              /\ ServedGarbage(t) => error[Self(t)].cls = "ValueError"
              /\ ReadFailed(t) => error[Self(t)].cls = "socket.error"

\* A direct call of send was served a body that is no JSON and has ended with
\* ConnectionError; the slot holds the ValueError.
C8_Witness ==
    /\ frame[1].entry = "send"
    /\ SendCaught(1)
    /\ ServedGarbage(1)
    /\ frame[1].served.text = "<html>401</html>"
    /\ error[Self(1)].cls = "ValueError"

(***************************************************************************)
(* C9: the cause of a ConnectionError after execute.                       *)
(***************************************************************************)

\* C9, as stated: after execute fails with ConnectionError, the low-level
\* exception that caused it can still be inspected.  A ConnectionError has
\* the attributes message, connection_type and commands (ConnectionError_init)
\* and none that refers to the cause, so the cause can be inspected only if
\* the error slot still holds it.
C9_CauseRetainedAfterExecute ==
    \A t \in Threads :
        ExecuteRaised(t, "ConnectionError") =>
            /\ error[Self(t)].cls \in CaughtBySend
            /\ error[Self(t)].call = frame[t].call

(***************************************************************************)
(* C10: the request envelope.                                              *)
(***************************************************************************)

\* data is the serialization of an envelope with jsonrpc "2.0", method
\* "runCmds", params.version 1, params.cmds commands and params.format
\* encoding.
IsRequestEnvelope(data, commands, encoding) ==
    LET r == loads(data)
    IN  /\ r.ok
        /\ r.val.t = "dict"
        /\ \A key \in {"jsonrpc", "method", "params", "id"} : HasKey(r.val, key)
        /\ GetItem(r.val, "jsonrpc") = PyStr("2.0")
        /\ GetItem(r.val, "method") = PyStr("runCmds")
        /\ LET params == GetItem(r.val, "params")
           IN  /\ params.t = "dict"
               /\ params.k = <<"version", "cmds", "format">>
               /\ GetItem(params, "version") = PyInt(1)
               /\ GetItem(params, "cmds") = commands
               /\ GetItem(params, "format") = encoding

\* C10: for every command list and every encoding in {json, text}, request
\* returns the serialization of an envelope with jsonrpc "2.0", method
\* "runCmds", params.version 1, the commands in the same order and the
\* encoding as format, be it called by the user or by execute; it makes no
\* call on the transport and leaves the error slot and the token as they were.
C10_RequestEnvelope ==
    \A t \in Threads :
        /\ ( /\ frame[t].entry = "request"
             /\ Ended(t)
             /\ ValidEncoding(frame[t].encoding) )
           => /\ frame[t].outcome = "returned"
              /\ frame[t].retval.t = "str"
              /\ IsRequestEnvelope(frame[t].retval.s, frame[t].commands,
                                   frame[t].encoding)
              /\ Observable(Self(t)) = frame[t].before
        /\ ( /\ frame[t].entry = "execute"
             /\ frame[t].pc = "send_putrequest" )
           => /\ IsRequestEnvelope(frame[t].data, frame[t].commands,
                                   frame[t].encoding)
              /\ wire[Self(t)] = <<>>
              /\ error[Self(t)] = NoError

\* A call of request with two commands, one of them with a quote and a
\* backslash, and encoding text has returned on a connection whose error slot
\* holds the error of the execute call before it.
C10_Witness ==
    /\ frame[1].entry = "request"
    /\ Ended(1)
    /\ frame[1].commands = TwoCommands
    /\ frame[1].encoding = PyStr("text")
    /\ error[Self(1)].cls = "CommandError"
    /\ wire[Self(1)] # <<>>

(***************************************************************************)
(* C11: two connections are independent.                                   *)
(***************************************************************************)

\* All there is of connection c.
Connection(c) ==
    <<kwargs[c], transport[c], error[c], _auth[c], hstate[c], sock[c], wire[c],
      creds[c], lastReset[c]>>

\* What holds of the calls on a connection used alone.
AsIfAlone ==
    /\ C1_ClosedOnEveryExit
    /\ C2_SlotBelongsToLastCheckedExecute
    /\ C4_ConnectionTypeIsConnectionIdentity
    /\ C5_SuccessEnvelopeReturned
    /\ C6_InvalidEncodingRejectedFirst
    /\ C7_AuthorizationIffAuthenticated
    /\ C8_SlotHoldsCauseAtSendExit
    /\ \A t \in Threads : frame[t].pc = "idle" =>
           sock[t] = "None" /\ hstate[t] = "Idle"

\* C11: with two connections used by two callers, under every interleaving
\* of the steps of their calls, a step of a call on one connection leaves
\* everything of the other connection unchanged (its error slot, its token,
\* its transport and the state of its stream), and what holds of the calls
\* on a connection used alone holds of the calls on each of them.
C11_ConnectionsIndependent ==
    /\ []AsIfAlone
    /\ [][\A t \in Threads :
            frame'[t] # frame[t] =>
                \A c \in Conns \ {frame'[t].self} : Connection(c)' = Connection(c)]_vars

\* The call on connection 2 has failed to connect and its error is in the
\* slot of connection 2, while the call on connection 1, begun before, is
\* reading its response on an open stream, its slot empty.
C11_Witness ==
    /\ frame[1].pc = "send_read"
    /\ frame[1].call = 1
    /\ sock[1] = "open"
    /\ error[1] = NoError
    /\ ExecuteRaised(2, "ConnectionError")
    /\ ConnectFailed(2)
    /\ error[2] = frame[2].raised
    /\ sock[2] = "None"

(***************************************************************************)
(* C12: two callers of execute on one connection race.                     *)
(***************************************************************************)

\* The transport calls op1 and, later, op2 are recorded in log.
RecordedBefore(log, op1, op2) ==
    \E i, j \in 1..Len(log) : i < j /\ log[i][1] = op1 /\ log[j][1] = op2

\* C12: a connection has no lock: a caller that is in no call can begin an
\* execute call on the connection whatever the other caller is doing on it,
\* at every step of the other caller's call.  (The races this allows are
\* those of C12_Witness.)
C12_NoInternalLocking ==
    \A t \in Threads :
        (frame[t].pc = "idle" /\ ncalls < MaxCalls)
            => ENABLED execute_enter(t, 1, OneCommand, PyStr("json"), PyNone)

\* Both races in one run of two execute calls: one call closed the transport
\* while the request of the other was in flight (a response was read after a
\* close), and the CommandError that the call of thread 1 raised and stored
\* is no longer in the slot, overwritten by the error of thread 2.
C12_Witness ==
    /\ ExecuteRaised(1, "CommandError")
    /\ ExecuteRaised(2, "ConnectionError")
    /\ error[1] = frame[2].raised
    /\ error[1] # frame[1].raised
    /\ RecordedBefore(wire[1], "close", "read")
    /\ Count(wire[1], "putrequest") = 1

(***************************************************************************)
(* C13: the defaults of the four connection classes.                       *)
(***************************************************************************)

\* C13: a connection constructed without an optional argument has the
\* documented default in its place (socket path /var/run/command-api.sock;
\* local HTTP host localhost, port 8080, path /command-api; HTTP port 80,
\* path /command-api; HTTPS port 443, path /command-api); an HTTP or HTTPS
\* connection always has a token, the one of None:None when it was given no
\* credentials, and a socket or local HTTP connection has none until
\* authentication is called on it.
C13_DefaultsApplied ==
    \A c \in Conns :
        Exists(c) =>
            LET k  == kwargs[c]
                tr == transport[c]
            IN  /\ k.cls = "SocketEapiConnection" =>
                      /\ tr.cls = "SocketConnection"
                      /\ k.path = PyNone => tr.path = PyStr("/var/run/command-api.sock")
                      /\ ~creds[c].set => _auth[c] = PyNone
                /\ k.cls = "HttpLocalEapiConnection" =>
                      /\ tr.cls = "HttpConnection"
                      /\ tr.host = PyStr("localhost")
                      /\ k.port = PyNone => tr.port = PyInt(8080)
                      /\ k.port # PyNone => tr.port = k.port
                      /\ k.path = PyNone => tr.path = PyStr("/command-api")
                      /\ ~creds[c].set => _auth[c] = PyNone
                /\ k.cls = "HttpEapiConnection" =>
                      /\ tr.cls = "HttpConnection"
                      /\ tr.host = k.host
                      /\ k.port = PyNone => tr.port = PyInt(80)
                      /\ k.path = PyNone => tr.path = PyStr("/command-api")
                      /\ k.path # PyNone => tr.path = k.path
                /\ k.cls = "HttpsEapiConnection" =>
                      /\ tr.cls = "HttpsConnection"
                      /\ tr.host = k.host
                      /\ k.port = PyNone => tr.port = PyInt(443)
                      /\ k.path = PyNone => tr.path = PyStr("/command-api")
                /\ k.cls \in {"HttpEapiConnection", "HttpsEapiConnection"} =>
                      /\ _auth[c].t = "str"
                      /\ Len(_auth[c].s) > 0
                      /\ ncalls = 0 /\ k.username = PyNone /\ k.password = PyNone
                            => _auth[c] = PyStr("Tm9uZTpOb25l")
                      /\ ncalls = 0 /\ k.username = PyStr("admin")
                            => _auth[c] = PyStr("YWRtaW46eA==")

\* The HTTP connection to sw3, constructed with the host alone, is sending a
\* request to port 80 with the token of None:None.
C13_Witness ==
    /\ kwargs[1] = [Omitted EXCEPT !.cls = "HttpEapiConnection", !.host = PyStr("sw3")]
    /\ transport[1].port = PyInt(80)
    /\ transport[1].path = PyStr("/command-api")
    /\ frame[1].pc = "send_body"
    /\ Recorded(wire[1], "putheader", "Authorization", "Basic Tm9uZTpOb25l")

(***************************************************************************)
(* C14: the outcomes of execute.                                           *)
(***************************************************************************)

OpName(entry) == IF entry[1] = "putheader" THEN entry[2] ELSE entry[1]
OpNames(log) == [i \in 1..Len(log) |-> OpName(log[i])]

\* The transport calls of one request in the order send makes them, the
\* stream being opened by the first write (lines 286-298).
RequestOps(withAuthorization) ==
    <<"putrequest", "Content-type", "Content-length">>
        \o (IF withAuthorization THEN <<"Authorization">> ELSE <<>>)
        \o <<"connect", "endheaders", "send", "getresponse", "read">>

IsPrefix(s, full) == Len(s) <= Len(full) /\ s = SubSeq(full, 1, Len(s))

\* The log without its last entry when that is the close.
BeforeClose(log) ==
    IF Len(log) > 0 /\ log[Len(log)][1] = "close"
    THEN SubSeq(log, 1, Len(log) - 1) ELSE log

\* C15: the transport calls of one send are, in this order, the request
\* line, Content-type, Content-length, the Authorization header if any, the
\* end of the headers, the body, the fetch and the read of the response, and
\* the close: at most one request line per call (no second attempt), the
\* response is read only after the body was written, the close is the last
\* call and is made by every call that ended, and a call that failed made
\* no further transport call but the close.
C15_OneAttemptInOrder ==
    \A t \in Threads :
        frame[t].entry \in {"execute", "send"} /\ Exists(Self(t)) =>
            LET log == wire[Self(t)]
                ops == OpNames(BeforeClose(log))
            IN  /\ Count(log, "putrequest") <= 1
                /\ Count(log, "close") <= 1
                /\ IsPrefix(ops, RequestOps(TRUE)) \/ IsPrefix(ops, RequestOps(FALSE))
                /\ Count(log, "read") = 1 =>
                      RecordedBefore(log, "send", "read")
                /\ Count(log, "close") = 1 => frame[t].pc \in {"idle", "execute_except"}
                /\ Ended(t) /\ log # <<>> => log[Len(log)][1] = "close"
                /\ Recorded(log, "connect", "failed", "") =>
                      /\ Count(log, "endheaders") = 0
                      /\ Count(log, "send") = 0
                      /\ Count(log, "getresponse") = 0

\* An execute call on an authenticated connection returned after the whole
\* sequence, the close being its last transport call.
C15_Witness ==
    /\ ExecuteReturned(1)
    /\ OpNames(wire[1]) = RequestOps(TRUE) \o <<"close">>

(***************************************************************************)
(* C16: the request line and the content headers.                          *)
(***************************************************************************)

\* C16: whatever the class of the connection and the path its transport was
\* constructed with, the request of a call is a POST to /command-api with
\* Content-type application/json-rpc and a Content-length that is the length
\* of the body, in decimal: 123 for the request execute builds for
\* ['show version'] on the connection with id 4301, 135 for the two commands,
\* 8 for the body "not json" passed to send.
C16_PostToCommandApi ==
    \A t \in Threads :
        frame[t].entry \in {"execute", "send"} /\ Exists(Self(t)) =>
            LET log == wire[Self(t)]
            IN  /\ \A i \in 1..Len(log) :
                      /\ log[i][1] = "putrequest" =>
                            log[i] = <<"putrequest", "POST", "/command-api">>
                      /\ OpName(log[i]) = "Content-type" =>
                            log[i][3] = "application/json-rpc"
                      /\ log[i][1] = "send" =>
                            Recorded(log, "putheader", "Content-length",
                                     IntStr(Len(log[i][2])))
                /\ frame[t].pc \in HeadersPut =>
                      /\ log[1] = <<"putrequest", "POST", "/command-api">>
                      /\ log[2] = <<"putheader", "Content-type", "application/json-rpc">>
                      /\ log[3][2] = "Content-length"
                      /\ frame[t].entry = "send" /\ frame[t].data = "not json"
                            => log[3][3] = "8"
                      /\ frame[t].entry = "execute" /\ frame[t].commands = OneCommand
                            /\ frame[t].reqid = PyNone /\ Self(t) = 1
                            => log[3][3] = "123"
                      /\ frame[t].entry = "execute" /\ frame[t].commands = TwoCommands
                            /\ frame[t].reqid = PyNone /\ Self(t) = 1
                            => log[3][3] = "135"

\* The HTTP connection to sw1, constructed with the path /api, has written
\* the 123 characters of a request it posted to /command-api.
C16_Witness ==
    /\ transport[1].path = PyStr("/api")
    /\ frame[1].pc = "send_getresponse"
    /\ Recorded(wire[1], "putrequest", "POST", "/command-api")
    /\ Recorded(wire[1], "putheader", "Content-length", "123")
    /\ \E i \in 1..Len(wire[1]) : wire[1][i][1] = "send" /\ Len(wire[1][i][2]) = 123

(***************************************************************************)
(* C17: the id of the request envelope.                                    *)
(***************************************************************************)

\* Thread t's call has built a request: request has returned it to the user,
\* or execute has it in data.
RequestBuilt(t) ==
    \/ frame[t].entry = "request" /\ Ended(t) /\ frame[t].outcome = "returned"
    \/ frame[t].entry = "execute" /\ frame[t].data # ""
RequestText(t) ==
    IF frame[t].entry = "request" THEN frame[t].retval.s ELSE frame[t].data

\* The id member of the request, parsed back from the serialized text.
EnvelopeId(t) == GetItem(loads(RequestText(t)).val, "id")

\* C17, as stated: the id of every request envelope is a non-empty string,
\* the stringified id(self) when no reqid is given and the stringified value
\* of the caller otherwise, for every value the caller supplies.
C17_IdIsNonEmptyString ==
    \A t \in Threads :
        RequestBuilt(t) =>
            /\ EnvelopeId(t).t = "str"
            /\ Len(EnvelopeId(t).s) > 0
            /\ frame[t].reqid = PyNone =>
                  EnvelopeId(t) = PyStr(IF Self(t) = 1 THEN "4301" ELSE "4302")
            /\ frame[t].reqid = PyInt(7) => EnvelopeId(t) = PyStr("7")
            /\ frame[t].reqid = PyStr("r1") => EnvelopeId(t) = PyStr("r1")

\* C17, amended: the id of every request envelope is a string, the
\* stringified id(self) when no reqid is given (which is not empty) and
\* str(reqid) otherwise: "7" for 7, "r1" for "r1", and the empty string for
\* the reqid "", the one value for which the id is empty.
C17_IdIsStringOfReqid ==
    \A t \in Threads :
        RequestBuilt(t) =>
            /\ EnvelopeId(t).t = "str"
            /\ frame[t].reqid = PyNone =>
                  EnvelopeId(t) = PyStr(IF Self(t) = 1 THEN "4301" ELSE "4302")
            /\ frame[t].reqid = PyInt(7) => EnvelopeId(t) = PyStr("7")
            /\ frame[t].reqid = PyStr("r1") => EnvelopeId(t) = PyStr("r1")
            /\ frame[t].reqid = PyStr("") => EnvelopeId(t) = PyStr("")
            /\ Len(EnvelopeId(t).s) = 0 <=> frame[t].reqid = PyStr("")

\* An execute call with reqid "" has written a request whose id is the empty
\* string.
C17_Witness ==
    /\ frame[1].entry = "execute"
    /\ frame[1].reqid = PyStr("")
    /\ frame[1].pc = "send_getresponse"
    /\ RequestBuilt(1)
    /\ EnvelopeId(1) = PyStr("")
    /\ Recorded(wire[1], "send", frame[1].data, "")

(***************************************************************************)
(* C18: a call does not depend on the calls before it.                     *)
(***************************************************************************)

\* What the slot holds after an execute call whose outcome alone decides it:
\* the exception the call raised if that is a CommandError or a
\* ConnectionError, nothing otherwise.
SlotOfOutcome(t) ==
    IF frame[t].outcome = "raised"
       /\ frame[t].raised.cls \in {"CommandError", "ConnectionError"}
    THEN frame[t].raised ELSE NoError

\* The outcome of an execute call that passed the check of the encoding is
\* the one its own transport calls and reply give it.
OutcomeOfThisCall(t) ==
    /\ ServedSuccess(t) => ExecuteReturned(t) /\ frame[t].retval = frame[t].served.val
    /\ ServedFailure(t) => ExecuteRaised(t, "CommandError")
    /\ ServedGarbage(t) => ExecuteRaised(t, "ConnectionError")
    /\ ConnectFailed(t) => ExecuteRaised(t, "ConnectionError")
    /\ frame[t].outcome = "raised" => frame[t].raised.call = frame[t].call

\* C18, as stated: whatever the calls before it did, an execute call starts
\* on a closed, idle transport, its outcome is the one its own arguments,
\* transport calls and reply give it, and the error slot after it is decided
\* by that outcome alone.
C18_OutcomeAndSlotIndependentOfHistory ==
    \A t \in Threads :
        /\ frame[t].entry = "execute" /\ frame[t].pc = "send_putrequest" =>
              /\ sock[Self(t)] = "None"
              /\ hstate[Self(t)] = "Idle"
              /\ error[Self(t)] = NoError
        /\ ExecuteEnded(t) =>
              /\ sock[Self(t)] = "None"
              /\ hstate[Self(t)] = "Idle"
              /\ ValidEncoding(frame[t].encoding) => OutcomeOfThisCall(t)
              /\ ~ValidEncoding(frame[t].encoding) => ExecuteRaised(t, "TypeError")
              /\ error[Self(t)] = SlotOfOutcome(t)

\* C18, amended: whatever the calls before it did, an execute call that
\* passes the check of the encoding starts on a closed, idle transport with
\* an empty slot, its outcome is the one its own arguments, transport calls
\* and reply give it, and the error slot after it is decided by that outcome
\* alone; a call rejected for its encoding raises TypeError whatever came
\* before and leaves in the slot what the calls before it left there.
C18_CheckedCallIndependentOfHistory ==
    \A t \in Threads :
        /\ frame[t].entry = "execute" /\ frame[t].pc = "send_putrequest" =>
              /\ sock[Self(t)] = "None"
              /\ hstate[Self(t)] = "Idle"
              /\ error[Self(t)] = NoError
        /\ ExecuteEnded(t) =>
              /\ sock[Self(t)] = "None"
              /\ hstate[Self(t)] = "Idle"
              /\ ValidEncoding(frame[t].encoding) =>
                    /\ OutcomeOfThisCall(t)
                    /\ error[Self(t)] = SlotOfOutcome(t)
              /\ ~ValidEncoding(frame[t].encoding) =>
                    /\ ExecuteRaised(t, "TypeError")
                    /\ error[Self(t)] = NoError \/ error[Self(t)].call < frame[t].call

\* An execute call returned a success envelope and left the slot empty on a
\* connection whose call before it had raised.
C18_Witness ==
    /\ ExecuteReturned(1)
    /\ frame[1].prevFailed
    /\ frame[1].call = 2
    /\ ServedSuccess(1)
    /\ Count(wire[1], "close") = 1
    /\ error[1] = SlotOfOutcome(1)
    /\ error[1] = NoError

(***************************************************************************)
(* C19: responses without an error member, and with both members.          *)
(***************************************************************************)

\* Thread t's call read a body that parses as JSON.
ServedJson(t) ==
    /\ Recorded(wire[Self(t)], "read", "", "")
    /\ frame[t].served.json

\* The decoded value is an object with the member key.
HasMember(val, key) == val.t = "dict" /\ HasKey(val, key)

\* C19, as stated: an execute call whose response body parses as JSON and
\* has no error member returns the decoded value, raises nothing and leaves
\* the error slot empty, also when the body has no result member; and a
\* response with both an error and a result member makes it raise
\* CommandError.
C19_NoErrorMemberIsSuccess ==
    \A t \in Threads :
        ExecuteEnded(t) /\ ValidEncoding(frame[t].encoding) /\ ServedJson(t) =>
            /\ ~HasMember(frame[t].served.val, "error") =>
                  /\ ExecuteReturned(t)
                  /\ frame[t].retval = frame[t].served.val
                  /\ error[Self(t)] = NoError
            /\ ( /\ HasMember(frame[t].served.val, "error")
                 /\ HasMember(frame[t].served.val, "result") ) =>
                  ExecuteRaised(t, "CommandError")

(***************************************************************************)
(* C20: what changes the token, and what authentication changes.           *)
(***************************************************************************)

\* This step is thread t calling authentication on connection c.
AuthenticationStep(t, c) ==
    /\ frame[t].pc = "idle"
    /\ frame'[t].entry = "authentication"
    /\ frame'[t].self = c
    /\ frame'[t].call = ncalls + 1
    /\ ncalls' = ncalls + 1

\* C20: the token of a connection changes only in a call of authentication
\* on it: every step of execute, send and request, on every way out, leaves
\* the token and the transport of every connection as they were; and a call
\* of authentication leaves the error slot and the transport as they were
\* and makes no call on the transport.
C20_TokenChangesOnlyThroughAuthentication ==
    [][\A c \in Conns :
          /\ transport'[c] = transport[c]
          /\ _auth'[c] # _auth[c] => \E t \in Threads : AuthenticationStep(t, c)
          /\ (\A t \in Threads : ~AuthenticationStep(t, c)) =>
                _auth'[c] = _auth[c] /\ creds'[c] = creds[c]
          /\ (\E t \in Threads : AuthenticationStep(t, c)) =>
                /\ error' = error
                /\ wire' = wire
                /\ sock' = sock
                /\ hstate' = hstate
                /\ \A d \in Conns \ {c} : _auth'[d] = _auth[d]]_vars

\* A call of authentication has changed the token of the HTTP connection to
\* sw1 and left in the slot the ConnectionError of the execute call before
\* it, which had sent the token the connection was constructed with.
C20_Witness ==
    /\ frame[1].entry = "authentication"
    /\ Ended(1)
    /\ frame[1].call = 2
    /\ transport[1].host = PyStr("sw1")
    /\ _auth[1] = PyStr("Og==")
    /\ error[1].cls = "ConnectionError"
    /\ error[1].call = 1
    /\ Recorded(wire[1], "putheader", "Authorization", "Basic YWRtaW46eA==")
    /\ Recorded(wire[1], "close", "", "")

=============================================================================
